---- MODULE Spec2Model ----
(***************************************************************************)
(* Model of the polygon geometry module (isPointInsideSimplePolygon,       *)
(* isPointOnEdgeOfSimplePolygon, closestPointOnSimplePolygonToTarget) of   *)
(* the polygon editor.                                                     *)
(*                                                                         *)
(* The functions compute with JavaScript Numbers, i.e. IEEE-754 binary64   *)
(* values with round-to-nearest-even.  The first part of the module is an  *)
(* arithmetic of such values: a finite Number is kept as sign, odd integer *)
(* mantissa and binary exponent, the mantissa being a little-endian        *)
(* sequence of base-2^15 limbs (TLC integers are 32 bits wide).  Every     *)
(* operation computes the exact result and rounds it to 53 significant     *)
(* bits, as the hardware does.  Exponent overflow and subnormal results    *)
(* lie far outside the inputs enumerated here and are not modelled; the    *)
(* sign of a zero is not kept (no operation of the module observes it).    *)
(***************************************************************************)
EXTENDS Integers, Sequences, FiniteSets, TLC

----------------------------------------------------------------------------
(* Natural numbers of arbitrary size: little-endian limbs, no high zeros.  *)

LimbBits == 15
LimbBase == 32768
MantBits == 53

RECURSIVE BnTrim(_)
BnTrim(a) ==
    IF Len(a) = 0 THEN a
    ELSE IF a[Len(a)] = 0 THEN BnTrim(SubSeq(a, 1, Len(a) - 1))
    ELSE a

RECURSIVE BnFromNat(_)
BnFromNat(n) ==
    IF n = 0 THEN << >>
    ELSE <<n % LimbBase>> \o BnFromNat(n \div LimbBase)

BnLimb(a, i) == IF i <= Len(a) THEN a[i] ELSE 0

BnMaxLen(a, b) == IF Len(a) >= Len(b) THEN Len(a) ELSE Len(b)

RECURSIVE BnAddFrom(_, _, _, _)
BnAddFrom(a, b, i, carry) ==
    IF i > BnMaxLen(a, b)
    THEN (IF carry = 0 THEN << >> ELSE <<carry>>)
    ELSE LET s == BnLimb(a, i) + BnLimb(b, i) + carry
         IN  <<s % LimbBase>> \o BnAddFrom(a, b, i + 1, s \div LimbBase)

BnAdd(a, b) == BnAddFrom(a, b, 1, 0)

\* -1, 0 or 1 as a < b, a = b, a > b; compares from limb i downwards
RECURSIVE BnCmpFrom(_, _, _)
BnCmpFrom(a, b, i) ==
    IF i = 0 THEN 0
    ELSE IF a[i] < b[i] THEN -1
    ELSE IF a[i] > b[i] THEN 1
    ELSE BnCmpFrom(a, b, i - 1)

BnCmp(a, b) ==
    IF Len(a) < Len(b) THEN -1
    ELSE IF Len(a) > Len(b) THEN 1
    ELSE BnCmpFrom(a, b, Len(a))

\* a - b for a >= b
RECURSIVE BnSubFrom(_, _, _, _)
BnSubFrom(a, b, i, borrow) ==
    IF i > Len(a) THEN << >>
    ELSE LET d == a[i] - BnLimb(b, i) - borrow
         IN  IF d < 0
             THEN <<d + LimbBase>> \o BnSubFrom(a, b, i + 1, 1)
             ELSE <<d>> \o BnSubFrom(a, b, i + 1, 0)

BnSub(a, b) == BnTrim(BnSubFrom(a, b, 1, 0))

\* a * k for 0 <= k < LimbBase
RECURSIVE BnMulSmallFrom(_, _, _, _)
BnMulSmallFrom(a, k, i, carry) ==
    IF i > Len(a)
    THEN (IF carry = 0 THEN << >> ELSE <<carry>>)
    ELSE LET p == a[i] * k + carry
         IN  <<p % LimbBase>> \o BnMulSmallFrom(a, k, i + 1, p \div LimbBase)

BnMulSmall(a, k) == IF k = 0 THEN << >> ELSE BnMulSmallFrom(a, k, 1, 0)

BnZeros(n) == [i \in 1..n |-> 0]

BnShiftLimbs(a, n) == IF Len(a) = 0 THEN a ELSE BnZeros(n) \o a

RECURSIVE BnMulFrom(_, _, _)
BnMulFrom(a, b, i) ==
    IF i > Len(b) THEN << >>
    ELSE BnAdd(BnShiftLimbs(BnMulSmall(a, b[i]), i - 1), BnMulFrom(a, b, i + 1))

BnMul(a, b) == BnMulFrom(a, b, 1)

\* <<quotient, remainder>> of a by k, 0 < k <= LimbBase; from limb i downwards
RECURSIVE BnDivSmallFrom(_, _, _, _)
BnDivSmallFrom(a, k, i, rem) ==
    IF i = 0 THEN << << >>, rem >>
    ELSE LET cur  == rem * LimbBase + a[i]
             rest == BnDivSmallFrom(a, k, i - 1, cur % k)
         IN  << Append(rest[1], cur \div k), rest[2] >>

BnDivSmall(a, k) ==
    LET r == BnDivSmallFrom(a, k, Len(a), 0)
    IN  << BnTrim(r[1]), r[2] >>

\* a * 2^n
BnShl(a, n) == BnShiftLimbs(BnMulSmall(a, 2 ^ (n % LimbBits)), n \div LimbBits)

\* floor(a / 2^n)
BnShr(a, n) ==
    LET q == n \div LimbBits
    IN  IF q >= Len(a) THEN << >>
        ELSE BnDivSmall(SubSeq(a, q + 1, Len(a)), 2 ^ (n % LimbBits))[1]

RECURSIVE BitLenSmall(_)
BitLenSmall(k) == IF k = 0 THEN 0 ELSE 1 + BitLenSmall(k \div 2)

BnBitLen(a) ==
    IF Len(a) = 0 THEN 0
    ELSE LimbBits * (Len(a) - 1) + BitLenSmall(a[Len(a)])

BnIsZero(a) == Len(a) = 0

BnIsOdd(a) == Len(a) > 0 /\ a[1] % 2 = 1

BnBit(a, n) ==
    LET q == n \div LimbBits
    IN  IF q >= Len(a) THEN 0 ELSE (a[q + 1] \div (2 ^ (n % LimbBits))) % 2

----------------------------------------------------------------------------
(* Loops with a fixed trip count.  Iterate runs Body(st, i) for i = lo..hi *)
(* in order, splitting the range in halves so that the evaluation depth    *)
(* stays logarithmic; the first half is evaluated before the second.       *)

RECURSIVE Iterate(_, _, _, _)
Iterate(Body(_, _), st, lo, hi) ==
    IF lo > hi THEN st
    ELSE IF lo = hi THEN Body(st, lo)
    ELSE LET mid   == (lo + hi) \div 2
             first == Iterate(Body, st, lo, mid)
         IN  IF first = first THEN Iterate(Body, first, mid + 1, hi) ELSE first

\* floor(sqrt(n)) and whether n is a perfect square: <<root, exact>>.
\* Digit-by-digit method; step i handles the bit pair at position 2*(k - i).
BnSqrtTry(st, bit, cand) ==
    IF BnCmp(st.n, cand) >= 0
    THEN [n |-> BnSub(st.n, cand), res |-> BnAdd(BnShr(st.res, 1), bit)]
    ELSE [n |-> st.n, res |-> BnShr(st.res, 1)]

BnSqrtBit(st, bit) == BnSqrtTry(st, bit, BnAdd(st.res, bit))

BnSqrtStep(k, st, i) == BnSqrtBit(st, BnShl(<<1>>, 2 * (k - i)))

BnSqrtLoop(n, k) ==
    LET Body(st, i) == BnSqrtStep(k, st, i)
    IN  Iterate(Body, [n |-> n, res |-> << >>], 0, k)

BnRootExact(fin) == << fin.res, BnIsZero(fin.n) >>

BnSqrtRem(n) ==
    IF BnIsZero(n) THEN << << >>, TRUE >>
    ELSE BnRootExact(BnSqrtLoop(n, (BnBitLen(n) - 1) \div 2))

\* <<floor(a / b), a % b = 0>> for b > 0.  Binary long division; step i
\* brings down bit (top - i) of a.
BnDivTry(b, q, r) ==
    IF BnCmp(r, b) >= 0
    THEN [r |-> BnSub(r, b), q |-> BnAdd(BnShl(q, 1), <<1>>)]
    ELSE [r |-> r, q |-> BnShl(q, 1)]

BnDivStep(a, b, top, st, i) ==
    BnDivTry(b, st.q, BnAdd(BnShl(st.r, 1), BnFromNat(BnBit(a, top - i))))

BnDivLoop(a, b, top) ==
    LET Body(st, i) == BnDivStep(a, b, top, st, i)
    IN  Iterate(Body, [r |-> << >>, q |-> << >>], 0, top)

BnQuotExact(fin) == << fin.q, BnIsZero(fin.r) >>

BnSmallQuotExact(qr) == << qr[1], qr[2] = 0 >>

BnDivRem(a, b) ==
    IF Len(b) = 1 THEN BnSmallQuotExact(BnDivSmall(a, b[1]))
    ELSE BnQuotExact(BnDivLoop(a, b, BnBitLen(a) - 1))

----------------------------------------------------------------------------
(* JavaScript Numbers.                                                     *)
(*   [k |-> "num", s, m, e]  the value (-1)^s * m * 2^e, m odd, or zero    *)
(*                           (m = << >>, s = 0, e = 0)                     *)
(*   [k |-> "inf", s]        +Infinity / -Infinity                         *)
(*   [k |-> "nan"]           NaN                                           *)
(*   [k |-> "undef"]         the value undefined (an unassigned `let`)     *)

NaN == [k |-> "nan"]
Undefined == [k |-> "undef"]
Inf(s) == [k |-> "inf", s |-> s]
Zero == [k |-> "num", s |-> 0, m |-> << >>, e |-> 0]

IsNum(a) == a.k = "num"
IsZero(a) == a.k = "num" /\ BnIsZero(a.m)

\* number of trailing zero bits of k > 0
RECURSIVE TrailingZeros(_)
TrailingZeros(k) == IF k % 2 = 1 THEN 0 ELSE 1 + TrailingZeros(k \div 2)

RECURSIVE ZeroLimbs(_, _)
ZeroLimbs(m, i) == IF m[i] # 0 THEN i - 1 ELSE ZeroLimbs(m, i + 1)

\* the Number (-1)^s * m * 2^e for a mantissa of at most 53 bits
MkOdd(s, m, e, t) == [k |-> "num", s |-> s, m |-> BnShr(m, t), e |-> e + t]

MkNonZero(s, m, e, z) ==
    MkOdd(s, SubSeq(m, z + 1, Len(m)), e + LimbBits * z, TrailingZeros(m[z + 1]))

MkNum(s, m, e) ==
    IF BnIsZero(m) THEN Zero ELSE MkNonZero(s, m, e, ZeroLimbs(m, 1))

\* Round (-1)^s * (n + f) * 2^e to nearest, ties to even, where 0 <= f < 1
\* and f > 0 iff sticky.  A sticky n has at least MantBits + 2 bits.
\* q = floor(n / 2^sh), c compares the remainder with one half
RoundUp(q, c, sticky) == c > 0 \/ (c = 0 /\ (sticky \/ BnIsOdd(q)))

RoundQuotient(s, n, e, sticky, sh, q) ==
    MkNum(s,
          IF RoundUp(q, BnCmp(BnSub(n, BnShl(q, sh)), BnShl(<<1>>, sh - 1)), sticky)
          THEN BnAdd(q, <<1>>) ELSE q,
          e + sh)

RoundShift(s, n, e, sticky, sh) == RoundQuotient(s, n, e, sticky, sh, BnShr(n, sh))

RoundNum(s, n, e, sticky) ==
    IF BnBitLen(n) <= MantBits THEN MkNum(s, n, e)
    ELSE RoundShift(s, n, e, sticky, BnBitLen(n) - MantBits)

\* the Number of an integer literal or integer input
FromInt(i) == IF i < 0 THEN MkNum(1, BnFromNat(-i), 0) ELSE MkNum(0, BnFromNat(i), 0)

FNeg(a) ==
    IF a.k = "num" THEN (IF BnIsZero(a.m) THEN a ELSE [a EXCEPT !.s = 1 - a.s])
    ELSE IF a.k = "inf" THEN Inf(1 - a.s)
    ELSE NaN

\* the exact sum of two finite Numbers, as <<sign, magnitude, exponent>>
\* c compares the magnitudes na and nb, both in units of 2^e
AddCompared(sa, na, sb, nb, e, c) ==
    IF sa = sb THEN <<sa, BnAdd(na, nb), e>>
    ELSE IF c = 0 THEN <<0, << >>, 0>>
    ELSE IF c > 0 THEN <<sa, BnSub(na, nb), e>>
    ELSE <<sb, BnSub(nb, na), e>>

AddAligned(sa, na, sb, nb, e) == AddCompared(sa, na, sb, nb, e, BnCmp(na, nb))

AddExact(a, b) ==
    IF BnIsZero(a.m) THEN <<b.s, b.m, b.e>>
    ELSE IF BnIsZero(b.m) THEN <<a.s, a.m, a.e>>
    ELSE IF a.e <= b.e
         THEN AddAligned(a.s, a.m, b.s, BnShl(b.m, b.e - a.e), a.e)
         ELSE AddAligned(a.s, BnShl(a.m, a.e - b.e), b.s, b.m, b.e)

\* the Number nearest to an exact sum
RoundExact(x) == RoundNum(x[1], x[2], x[3], FALSE)

\* a + b
FAdd(a, b) ==
    IF a.k \in {"nan", "undef"} \/ b.k \in {"nan", "undef"} THEN NaN
    ELSE IF a.k = "inf" THEN (IF b.k = "inf" /\ b.s # a.s THEN NaN ELSE a)
    ELSE IF b.k = "inf" THEN b
    ELSE RoundExact(AddExact(a, b))

\* a - b
FSub(a, b) == FAdd(a, FNeg(b))

\* a * b
FMul(a, b) ==
    IF a.k \in {"nan", "undef"} \/ b.k \in {"nan", "undef"} THEN NaN
    ELSE IF a.k = "inf" \/ b.k = "inf"
         THEN (IF IsZero(a) \/ IsZero(b) THEN NaN ELSE Inf((a.s + b.s) % 2))
    ELSE RoundNum((a.s + b.s) % 2, BnMul(a.m, b.m), a.e + b.e, FALSE)

Max0(d) == IF d > 0 THEN d ELSE 0

\* rounds a quotient or a root <<n, exact>> in units of 2^e
RoundInexact(s, qr, e) == RoundNum(s, qr[1], e, ~qr[2])

\* a / b for finite non-zero operands, the dividend scaled by 2^sh
DivShifted(a, b, sh) ==
    RoundInexact((a.s + b.s) % 2, BnDivRem(BnShl(a.m, sh), b.m), a.e - b.e - sh)

\* a / b
FDiv(a, b) ==
    IF a.k \in {"nan", "undef"} \/ b.k \in {"nan", "undef"} THEN NaN
    ELSE IF a.k = "inf" THEN (IF b.k = "inf" THEN NaN ELSE Inf((a.s + b.s) % 2))
    ELSE IF b.k = "inf" THEN Zero
    ELSE IF BnIsZero(b.m) THEN (IF BnIsZero(a.m) THEN NaN ELSE Inf(a.s))
    ELSE IF BnIsZero(a.m) THEN Zero
    ELSE DivShifted(a, b, Max0(MantBits + 3 + BnBitLen(b.m) - BnBitLen(a.m)))

\* the least shift above sh0 that leaves an even exponent
EvenShift(e, sh0) == IF (e - sh0) % 2 = 0 THEN sh0 ELSE sh0 + 1

\* the square root of a positive Number, its mantissa scaled by 2^sh
SqrtShifted(a, sh) == RoundInexact(0, BnSqrtRem(BnShl(a.m, sh)), (a.e - sh) \div 2)

\* the correctly rounded square root of a Number
SqrtRounded(a) ==
    IF a.k \in {"nan", "undef"} THEN NaN
    ELSE IF a.k = "inf" THEN (IF a.s = 0 THEN a ELSE NaN)
    ELSE IF BnIsZero(a.m) THEN Zero
    ELSE IF a.s = 1 THEN NaN
    ELSE SqrtShifted(a, EvenShift(a.e, Max0(2 * (MantBits + 2) - BnBitLen(a.m))))

\* the square roots of the small integers, computed once
SqrtTable == [n \in 0..200 |-> SqrtRounded(FromInt(n))]

\* Math.sqrt(a)
FSqrt(a) ==
    IF a.k = "num" /\ a.s = 0 /\ Len(a.m) = 1 /\ a.e \in 0..9
    THEN (IF a.m[1] * (2 ^ a.e) <= 200 THEN SqrtTable[a.m[1] * (2 ^ a.e)]
          ELSE SqrtRounded(a))
    ELSE SqrtRounded(a)

\* the sign of an exact sum
SignExact(x) == IF BnIsZero(x[2]) THEN 0 ELSE IF x[1] = 0 THEN 1 ELSE -1

\* -1, 0, 1 for ordered operands
FCmpNum(a, b) ==
    IF a.k = "inf" THEN (IF b.k = "inf" /\ b.s = a.s THEN 0 ELSE IF a.s = 0 THEN 1 ELSE -1)
    ELSE IF b.k = "inf" THEN (IF b.s = 0 THEN -1 ELSE 1)
    ELSE SignExact(AddExact(a, FNeg(b)))

Ordered(a, b) == a.k \in {"num", "inf"} /\ b.k \in {"num", "inf"}

\* a < b, a > b, a === b, a != b
FLt(a, b) == Ordered(a, b) /\ FCmpNum(a, b) < 0
FGt(a, b) == Ordered(a, b) /\ FCmpNum(a, b) > 0
FEq(a, b) == IF a.k = "undef" \/ b.k = "undef" THEN a.k = b.k
             ELSE Ordered(a, b) /\ FCmpNum(a, b) = 0
FNe(a, b) == ~FEq(a, b)

----------------------------------------------------------------------------
(* The geometry module.  A Point is a pair <<x, y>> of Numbers, a Polygon  *)
(* a sequence of Points; vertex i of the code (0-based) is poly[i + 1].    *)

\* x ** 2
FSquare(a) == FMul(a, a)

euclideanDistance(x1, y1, x2, y2) ==
    FSqrt(FAdd(FSquare(FSub(x1, x2)), FSquare(FSub(y1, y2))))

\* the loop header `for (let i = 0, j = nvert - 1; i < nvert; j = i++)`:
\* the value of j in the iteration with index i
LoopJ(nvert, i) == IF i = 0 THEN nvert - 1 ELSE i - 1

\* a mutation of CrossingX: the offset `+ poly[i][0]` is lost
CrossingXNoOffset(pi, pj, testy) ==
    FDiv(FMul(FSub(pj[1], pi[1]), FSub(testy, pi[2])), FSub(pj[2], pi[2]))

\* the x at which edge (i, j) meets the horizontal line through testy
CrossingX(pi, pj, testy) ==
    FAdd(FDiv(FMul(FSub(pj[1], pi[1]), FSub(testy, pi[2])), FSub(pj[2], pi[2])), pi[1])

\* a mutation of InsideStep: the test that the edge straddles the line
\* through the point is lost
InsideStepAnyEdge(point, poly, inside, i) ==
    IF FLt(point[1], CrossingX(poly[i + 1], poly[LoopJ(Len(poly), i) + 1], point[2]))
    THEN ~inside
    ELSE inside

\* a mutation of CrossingEvaluated: the left operand of `&&` is lost
CrossingAlwaysEvaluated(pi, pj, testy) == TRUE

\* `(poly[i][1] > testy) != (poly[j][1] > testy)`, the left operand of `&&`:
\* the right operand, with the division, is evaluated only when it is true
CrossingEvaluated(pi, pj, testy) == FGt(pi[2], testy) # FGt(pj[2], testy)

\* one iteration of the loop of isPointInsideSimplePolygon
InsideStep(point, poly, inside, i) ==
    LET pi == poly[i + 1]
        pj == poly[LoopJ(Len(poly), i) + 1]
    IN  IF CrossingEvaluated(pi, pj, point[2])
           /\ FLt(point[1], CrossingX(pi, pj, point[2]))
        THEN ~inside
        ELSE inside

\* the divisor `poly[j][1] - poly[i][1]` of iteration i, appended to divs
\* when the iteration evaluates the division
DivisorStep(point, poly, divs, i) ==
    IF CrossingEvaluated(poly[i + 1], poly[LoopJ(Len(poly), i) + 1], point[2])
    THEN Append(divs, FSub(poly[LoopJ(Len(poly), i) + 1][2], poly[i + 1][2]))
    ELSE divs

\* the divisors of the divisions a call of isPointInsideSimplePolygon
\* evaluates, in iteration order
InsideDivisors(point, poly) ==
    LET Body(divs, i) == DivisorStep(point, poly, divs, i)
    IN  Iterate(Body, << >>, 0, Len(poly) - 1)

isPointInsideSimplePolygon(point, poly) ==
    LET Body(inside, i) == InsideStep(point, poly, inside, i)
    IN  Iterate(Body, FALSE, 0, Len(poly) - 1)

\* the test `ip + pj === ij` of one edge
OnEdgeTest(point, pi, pj) ==
    LET ip == euclideanDistance(pi[1], pi[2], point[1], point[2])
        pj_ == euclideanDistance(point[1], point[2], pj[1], pj[2])
        ij == euclideanDistance(pi[1], pi[2], pj[1], pj[2])
    IN  FEq(FAdd(ip, pj_), ij)

\* one iteration of the loop of isPointOnEdgeOfSimplePolygon; found = TRUE
\* stands for `return true` having been executed
OnEdgeStep(point, poly, found, i) ==
    found \/ OnEdgeTest(point, poly[i + 1], poly[LoopJ(Len(poly), i) + 1])

isPointOnEdgeOfSimplePolygon(point, poly) ==
    LET Body(found, i) == OnEdgeStep(point, poly, found, i)
    IN  Iterate(Body, FALSE, 0, Len(poly) - 1)

\* the initial min_dist of the search
MIN_DIST_INIT == 100000

\* a mutation of MinCoordInit: `let min_x = NaN`
MinCoordInitNaN(build) == NaN

\* the initial min_x and min_y: `let min_x: number` in closest-point.ts,
\* `let min_x = 0` in the geometry module of the dist build
MinCoordInit(build) == IF build = "dist" THEN FromInt(0) ELSE Undefined

\* `dist = euclideanDistance(target[0], target[1], px, py)`: the candidate
\* of an edge, with its projection parameter
CandidateAt(target, cos_theta, p) ==
    [cos_theta |-> cos_theta, px |-> p[1], py |-> p[2],
     dist |-> euclideanDistance(target[1], target[2], p[1], p[2])]

\* a mutation of ClampedProjection: the two clamping branches are lost
UnclampedProjection(pi, pj, c, d, cos_theta) ==
    <<FAdd(pi[1], FMul(cos_theta, c)), FAdd(pi[2], FMul(cos_theta, d))>>

\* the three branches on cos_theta: <<px, py>>
ClampedProjection(pi, pj, c, d, cos_theta) ==
    IF FLt(cos_theta, FromInt(0)) THEN <<pi[1], pi[2]>>
    ELSE IF FGt(cos_theta, FromInt(1)) THEN <<pj[1], pj[2]>>
    ELSE <<FAdd(pi[1], FMul(cos_theta, c)), FAdd(pi[2], FMul(cos_theta, d))>>

ProjectionParameter(a, b, c, d) ==
    FDiv(FAdd(FMul(a, c), FMul(b, d)), FAdd(FMul(c, c), FMul(d, d)))

ProjectOnEdge(pi, pj, target, c, d, cos_theta) ==
    CandidateAt(target, cos_theta, ClampedProjection(pi, pj, c, d, cos_theta))

EdgeVectors(pi, pj, target, a, b, c, d) ==
    ProjectOnEdge(pi, pj, target, c, d, ProjectionParameter(a, b, c, d))

\* the candidate point of edge (i, j): its projection parameter, the
\* clamped projection and its distance to the target
EdgeCandidate(pi, pj, target) ==
    EdgeVectors(pi, pj, target,
                FSub(target[1], pi[1]), FSub(target[2], pi[2]),
                FSub(pj[1], pi[1]), FSub(pj[2], pi[2]))

\* a mutation of Improves: `if (!(dist >= min_dist))`
ImprovesUnlessNotBelow(dist, min_dist) == ~(FGt(dist, min_dist) \/ FEq(dist, min_dist))

\* a mutation of Improves: `if (dist <= min_dist)`
ImprovesOrTies(dist, min_dist) == FLt(dist, min_dist) \/ FEq(dist, min_dist)

\* `if (dist < min_dist)`
Improves(dist, min_dist) == FLt(dist, min_dist)

\* one iteration of the projection loop; st.edges records the candidates in
\* iteration order
KeepNearest(st, cand) ==
    IF Improves(cand.dist, st.min_dist)
    THEN [min_x |-> cand.px, min_y |-> cand.py, min_dist |-> cand.dist,
          edges |-> Append(st.edges, cand)]
    ELSE [st EXCEPT !.edges = Append(st.edges, cand)]

ClosestStep(poly, target, st, i) ==
    KeepNearest(st, EdgeCandidate(poly[i + 1], poly[LoopJ(Len(poly), i) + 1], target))

\* a mutation of TargetIsClosest: `&&` in place of `||`
TargetIsClosestBothCases(target, poly) ==
    isPointInsideSimplePolygon(target, poly) /\ isPointOnEdgeOfSimplePolygon(target, poly)

\* the condition of the first `if`: case 1 (strictly inside) or case 2 (on
\* an edge)
TargetIsClosest(target, poly) ==
    isPointInsideSimplePolygon(target, poly) \/ isPointOnEdgeOfSimplePolygon(target, poly)

\* The result of closestPointOnSimplePolygonToTarget: the coordinates of the
\* returned array, whether it is the spread copy of the target (copy = TRUE)
\* or the array literal [min_x, min_y], and the candidates of the edges the
\* projection loop went through.
ProjectionLoop(poly, target, build) ==
    LET Body(st, i) == ClosestStep(poly, target, st, i)
    IN  Iterate(Body,
                [min_x |-> MinCoordInit(build), min_y |-> MinCoordInit(build),
                 min_dist |-> FromInt(MIN_DIST_INIT), edges |-> << >>],
                0, Len(poly) - 1)

\* `return [min_x, min_y]`
MinPoint(fin) == [x |-> fin.min_x, y |-> fin.min_y, copy |-> FALSE, edges |-> fin.edges]

closestPointOnSimplePolygonToTarget(poly, target, build) ==
    IF TargetIsClosest(target, poly)
    THEN [x |-> target[1], y |-> target[2], copy |-> TRUE, edges |-> << >>]
    ELSE MinPoint(ProjectionLoop(poly, target, build))

----------------------------------------------------------------------------
(* Callers of the geometry module.  Points are JavaScript arrays, handed    *)
(* over by reference: heap[a] is the content <<x, y>> of the array at       *)
(* address a, a Polygon is the sequence of the addresses of its points.     *)
(* A caller builds a polygon and a target, calls one of the three           *)
(* functions and may afterwards write to the arrays it holds (the editor    *)
(* does so when it drags a polygon).                                        *)

VARIABLES
    heap,       \* contents of the allocated point arrays
    poly,       \* the polygon argument: addresses of its vertices
    target,     \* the point argument: an address
    callee,     \* "none" before the call, then the function that was called
    build,      \* which build of the module was called: "ts" or "dist"
    result,     \* the value returned by the call
    atReturn,   \* the heap as it was when the call returned
    written,    \* the arrays written to after the return, by access path
    editor      \* the state of the Editor component, when it is the caller

vars == <<heap, poly, target, callee, build, result, atReturn, written, editor>>

\* no Editor component is running
NoEditor == << >>

\* bounds of the enumerated inputs
GridMax == 3
MaxWrites == 1

Builds == {"ts", "dist"}

\* polygons, as integer vertex lists
Square10 == << <<0, 0>>, <<10, 0>>, <<10, 10>>, <<0, 10>> >>
Tri == << <<1, 1>>, <<5, 1>>, <<4, 4>> >>
Vee == << <<0, 0>>, <<4, 0>>, <<4, 4>>, <<2, 2>>, <<0, 4>> >>
DupVertex == << <<0, 0>>, <<4, 0>>, <<4, 0>>, <<4, 4>>, <<0, 4>> >>
OnePoint == << <<3, 3>>, <<3, 3>>, <<3, 3>> >>

\* malformed polygons: no vertex, one vertex, two vertices
NoVertex == << >>
OneVertex == << <<2, 2>> >>
TwoVertices == << <<1, 1>>, <<3, 3>> >>

SimplePolygons == {Square10, Tri, Vee}
MalformedPolygons == {NoVertex, OneVertex, TwoVertices}
Polygons == SimplePolygons \cup {DupVertex, OnePoint} \cup MalformedPolygons

FarEast == <<200000, 5>>
FarSouthWest == <<-80000, -80000>>
\* at distance 100000 from the edge x = 10 of Square10
AtSentinel == <<100010, 5>>
Targets ==
    ((0..GridMax) \X (0..GridMax))
        \cup { <<15, 5>>, <<-3, -4>>, <<5, 5>>, <<5, 0>>, FarEast, FarSouthWest, AtSentinel }

WriteValues == {FromInt(77)}

NumPoint(p) == <<FromInt(p[1]), FromInt(p[2])>>

\* the polygon and the point a call reads through its arguments
PolyValue(h, pl) == [i \in 1..Len(pl) |-> h[pl[i]]]
PolyArg == PolyValue(heap, poly)
TargetArg == heap[target]

Init ==
    \E pl \in Polygons, t \in Targets :
        /\ heap = [i \in 1..(Len(pl) + 1) |->
                      IF i <= Len(pl) THEN NumPoint(pl[i]) ELSE NumPoint(t)]
        /\ poly = [i \in 1..Len(pl) |-> i]
        /\ target = Len(pl) + 1
        /\ callee = "none"
        /\ build = "dist"
        /\ result = [kind |-> "none"]
        /\ atReturn = << >>
        /\ written = {}
        /\ editor = NoEditor

\* a mutation of SpreadCopy: `return target`
ReturnTargetItself(h, a) == [heap |-> h, ref |-> a]

\* `return [...target]`: a new array with the content of the array at a
SpreadCopy(h, a) == [heap |-> Append(h, h[a]), ref |-> Len(h) + 1]

\* `return [min_x, min_y]`: a new array
ArrayLiteral(h, x, y) == [heap |-> Append(h, <<x, y>>), ref |-> Len(h) + 1]

CallInside ==
    /\ callee = "none"
    /\ callee' = "inside"
    /\ result' = [kind |-> "bool", val |-> isPointInsideSimplePolygon(TargetArg, PolyArg),
                  divisors |-> InsideDivisors(TargetArg, PolyArg)]
    /\ atReturn' = heap
    /\ UNCHANGED <<editor, heap, poly, target, build, written>>

CallOnEdge ==
    /\ callee = "none"
    /\ callee' = "onEdge"
    /\ result' = [kind |-> "bool", val |-> isPointOnEdgeOfSimplePolygon(TargetArg, PolyArg)]
    /\ atReturn' = heap
    /\ UNCHANGED <<editor, heap, poly, target, build, written>>

\* a mutation of ReturnedArray: `target[0] = min_x; target[1] = min_y;
\* return target` in the outside case
ReturnedTargetOverwritten(r) ==
    IF r.copy THEN SpreadCopy(heap, target)
    ELSE [heap |-> [heap EXCEPT ![target] = <<r.x, r.y>>], ref |-> target]

\* the array the call returns for the computed result r
ReturnedArray(r) ==
    IF r.copy THEN SpreadCopy(heap, target) ELSE ArrayLiteral(heap, r.x, r.y)

\* the call returns: ret is the heap with the returned array and its address
Return(r, ret) ==
    /\ heap' = ret.heap
    /\ atReturn' = ret.heap
    /\ result' = [kind |-> "point", ref |-> ret.ref, copy |-> r.copy,
                  edges |-> r.edges]

ReturnClosest(r) == Return(r, ReturnedArray(r))

CallClosest(b) ==
    /\ callee = "none"
    /\ callee' = "closest"
    /\ build' = b
    /\ ReturnClosest(closestPointOnSimplePolygonToTarget(PolyArg, TargetArg, b))
    /\ UNCHANGED <<editor, poly, target, written>>

\* `return [x, y]` of clonePoint: the content of the new array
clonePoint(pt) == <<pt[1], pt[2]>>

\* a mutation of clonePolygon: `return p.map(pt => pt)`, a new outer list
\* of the same point arrays
ShallowCopy(h, pl) == [heap |-> h, outer |-> "fresh", pts |-> pl]

\* `return p.map(clonePoint)`: a new outer list (map returns a new array)
\* of new point arrays, allocated in order
clonePolygon(h, pl) ==
    [heap |-> h \o [i \in 1..Len(pl) |-> clonePoint(h[pl[i]])],
     outer |-> "fresh",
     pts |-> [i \in 1..Len(pl) |-> Len(h) + i]]

\* the call of clonePolygon returns cl
ReturnClone(cl) ==
    /\ heap' = cl.heap
    /\ atReturn' = cl.heap
    /\ result' = [kind |-> "polygon", outer |-> cl.outer, pts |-> cl.pts]

CallClone ==
    /\ callee = "none"
    /\ callee' = "clone"
    /\ ReturnClone(clonePolygon(heap, poly))
    /\ UNCHANGED <<editor, poly, target, build, written>>

CanWrite == callee \in {"closest", "clone"} /\ Cardinality(written) < MaxWrites

\* the caller assigns to a coordinate (c = 1 for [0], c = 2 for [1])
WriteReturned(c, v) ==
    /\ CanWrite
    /\ callee = "closest"
    /\ heap' = [heap EXCEPT ![result.ref][c] = v]
    /\ written' = written \cup {<<"result", 0>>}
    /\ UNCHANGED <<editor, poly, target, callee, build, result, atReturn>>

WriteTarget(c, v) ==
    /\ CanWrite
    /\ heap' = [heap EXCEPT ![target][c] = v]
    /\ written' = written \cup {<<"target", 0>>}
    /\ UNCHANGED <<editor, poly, target, callee, build, result, atReturn>>

WriteVertex(i, c, v) ==
    /\ CanWrite
    /\ i \in 1..Len(poly)
    /\ heap' = [heap EXCEPT ![poly[i]][c] = v]
    /\ written' = written \cup {<<"vertex", i>>}
    /\ UNCHANGED <<editor, poly, target, callee, build, result, atReturn>>

\* the caller assigns to a coordinate of point i of the clone
WriteClonePoint(i, c, v) ==
    /\ CanWrite
    /\ callee = "clone"
    /\ i \in 1..Len(result.pts)
    /\ heap' = [heap EXCEPT ![result.pts[i]][c] = v]
    /\ written' = written \cup {<<"clone", i>>}
    /\ UNCHANGED <<editor, poly, target, callee, build, result, atReturn>>

Next ==
    \/ CallInside
    \/ CallOnEdge
    \/ CallClone
    \/ \E i \in 1..Len(poly), c \in 1..2, v \in WriteValues : WriteClonePoint(i, c, v)
    \/ \E b \in Builds : CallClosest(b)
    \/ \E c \in 1..2, v \in WriteValues : WriteReturned(c, v)
    \/ \E c \in 1..2, v \in WriteValues : WriteTarget(c, v)
    \/ \E i \in 1..Len(poly), c \in 1..2, v \in WriteValues : WriteVertex(i, c, v)

Spec == Init /\ [][Next]_vars

-----------------------------------------------------------------------------
(* The Editor component.  Its polygons are lists of point arrays on the    *)
(* heap; the event handlers are the actions, each followed by the reactive *)
(* blocks that Svelte re-runs for the variables the handler assigned.  A   *)
(* handler whose conditions fail changes nothing, which is a stuttering    *)
(* step: the conditions appear as the guard of its action.                 *)

\* bound of the editing session: the number of events handled
MaxEvents == 7

\* `T | undefined`
None == << >>
Some(v) == <<v>>

Tools == {"select", "move", "closest-points", "triangle", "square", "hexagon"}

BASE_POLYGONS ==
    [triangle |-> << <<30, 0>>, <<60, 45>>, <<0, 45>> >>,
     square   |-> << <<0, 0>>, <<50, 0>>, <<50, 50>>, <<0, 50>> >>,
     hexagon  |-> << <<60, 26>>, <<45, 52>>, <<15, 52>>, <<0, 26>>, <<15, 0>>, <<45, 0>> >>]

ShapeTools == DOMAIN BASE_POLYGONS

\* the values getMouseCoordinatesInSVG returns for the events: whole pixels,
\* and a position with fractions that no double represents exactly (the
\* bounding rectangle of the canvas need not start on a whole pixel)
FractionalPosition == <<FDiv(FromInt(353), FromInt(10)), FDiv(FromInt(7), FromInt(10))>>
MousePositions == {NumPoint(<<20, 10>>), NumPoint(<<35, 30>>), FractionalPosition}

\* a mutation of Translate: the mouse coordinates are not added
NotTranslated(pt, mouse) == pt

\* `([x, y]) => [x + mouseX, y + mouseY]`
Translate(pt, mouse) == <<FAdd(pt[1], mouse[1]), FAdd(pt[2], mouse[2])>>

\* `BASE_POLYGONS[activeTool]?.map(...)`
PreviewAt(tool, mouse) ==
    IF tool \in ShapeTools
    THEN Some([i \in 1..Len(BASE_POLYGONS[tool]) |->
                  Translate(NumPoint(BASE_POLYGONS[tool][i]), mouse)])
    ELSE None

\* the returned array of a call, as a value
PointOf(r) == <<r.x, r.y>>

\* a call `closestPointOnSimplePolygonToTarget(poly, _captureCoords)`, held
\* as the values of its arguments at the time of the call; the function
\* reads nothing else, so the call stands for the point ClosestPointOf
ClosestCall(pl, mouse) == [poly |-> pl, target |-> mouse]
ClosestPointOf(call) ==
    PointOf(closestPointOnSimplePolygonToTarget(call.poly, call.target, build))

\* a mutation of ClosestPointsAt: `activeTool === "closest-points" ?` is lost
ClosestPointsAnyTool(tool, polygons, h, mouse) ==
    [k \in 1..Len(polygons) |-> ClosestCall(PolyValue(h, polygons[k]), mouse)]

\* `polygons.map(poly => closestPointOnSimplePolygonToTarget(poly, _captureCoords))`
ClosestPointsAt(tool, polygons, h, mouse) ==
    IF tool = "closest-points"
    THEN [k \in 1..Len(polygons) |-> ClosestCall(PolyValue(h, polygons[k]), mouse)]
    ELSE << >>

\* a mutation of ToolCleanup: `if (activeTool !== "select")` is lost
ToolCleanupKeepsSelection(e) ==
    [e EXCEPT !.draggingPolyIndex = IF e.activeTool # "move" THEN -1 ELSE @,
              !.closestPoints = IF e.activeTool # "closest-points" THEN << >> ELSE @]

\* a mutation of ToolCleanup: `if (activeTool !== "move")` is lost
ToolCleanupKeepsDrag(e) ==
    [e EXCEPT !.selectedIndex = IF e.activeTool # "select" THEN -1 ELSE @,
              !.closestPoints = IF e.activeTool # "closest-points" THEN << >> ELSE @]

\* the reactive block of the tool: clean-up for the tools that are not active
ToolCleanup(e) ==
    [e EXCEPT !.selectedIndex = IF e.activeTool # "select" THEN -1 ELSE @,
              !.draggingPolyIndex = IF e.activeTool # "move" THEN -1 ELSE @,
              !.closestPoints = IF e.activeTool # "closest-points" THEN << >> ELSE @]

\* the reactive block of the mouse: closest points and preview
MouseUpdate(e, h) ==
    IF e.mouseCoordsInSVG # None
    THEN [e EXCEPT !.closestPoints =
                       ClosestPointsAt(e.activeTool, e.polygons, h, e.mouseCoordsInSVG[1]),
                   !.addPolyPreview = PreviewAt(e.activeTool, e.mouseCoordsInSVG[1])]
    ELSE [e EXCEPT !.addPolyPreview = None, !.closestPoints = << >>]

EditorInit ==
    /\ heap = << >>
    /\ poly = << >>
    /\ target = 0
    /\ callee = "editor"
    /\ build = "dist"
    /\ result = [kind |-> "none"]
    /\ atReturn = << >>
    /\ written = {}
    /\ editor = [activeTool |-> "triangle",
                 addPolyPreview |-> None,
                 polygons |-> << >>,
                 closestPoints |-> << >>,
                 selectedIndex |-> -1,
                 mouseCoordsInSVG |-> None,
                 draggingPolyIndex |-> -1,
                 draggingPolyCoordsRelativeToMouse |-> << >>,
                 \* history: the events handled so far and the last of them
                 \* ("keydown" stands for a hotkey or a toolbar button), the
                 \* mouse position
                 \* and the heap at the mousedown of the last drag, and
                 \* whether the mouse has moved since
                 events |-> 0,
                 lastEvent |-> "none",
                 dragOrigin |-> None,
                 dragMoves |-> "none"]

\* an event can still be handled, and the state in which it is handled
CanHandle == editor.events < MaxEvents
Handling(ev) == [editor EXCEPT !.events = @ + 1, !.lastEvent = ev]

\* a toolbar button or a hotkey: `activeTool = tool`
SelectTool(tool) ==
    /\ CanHandle
    /\ tool # editor.activeTool
    /\ editor' = MouseUpdate(ToolCleanup([Handling("keydown") EXCEPT !.activeTool = tool]), heap)
    /\ UNCHANGED <<heap, poly, target, callee, build, result, atReturn, written>>

\* a mutation of RelativeToMouse: the subtraction of the mouse is lost
NotRelativeToMouse(pt, mouse) == pt

\* `([x, y]) => [x - mouseX, y - mouseY]`
RelativeToMouse(pt, mouse) == <<FSub(pt[1], mouse[1]), FSub(pt[2], mouse[2])>>

\* `poly.map(([x, y]) => [x - mouseX, y - mouseY])`
CoordsRelativeToMouse(h, pl, mouse) ==
    [i \in 1..Len(pl) |-> RelativeToMouse(h[pl[i]], mouse)]

\* polygon element index (0-based) exists: `index >= 0 && index < polygons.length`
ValidIndex(e, index) == index >= 0 /\ index < Len(e.polygons)

\* the elements a mouse event can have as its target: a polygon element or
\* (-1) another element
TargetIndexes == -1..(Len(editor.polygons) - 1)

svgMouseDown(index, mouse) ==
    /\ CanHandle
    /\ editor.activeTool = "move"
    /\ ValidIndex(editor, index)
    /\ editor' = [Handling("mousedown") EXCEPT
                     !.draggingPolyIndex = index,
                     !.draggingPolyCoordsRelativeToMouse =
                         CoordsRelativeToMouse(heap, editor.polygons[index + 1], mouse),
                     !.dragOrigin = Some([mouse |-> mouse, heap |-> heap,
                                          polygons |-> editor.polygons]),
                     !.dragMoves = "none"]
    /\ UNCHANGED <<heap, poly, target, callee, build, result, atReturn, written>>

\* a mutation of svgMouseUp: `draggingPolyIndex = -1` is lost
svgMouseUpKeepsDrag ==
    /\ CanHandle
    /\ editor' = Handling("mouseup")
    /\ UNCHANGED <<heap, poly, target, callee, build, result, atReturn, written>>

svgMouseUp ==
    /\ CanHandle
    /\ editor' = [Handling("mouseup") EXCEPT !.draggingPolyIndex = -1]
    /\ UNCHANGED <<heap, poly, target, callee, build, result, atReturn, written>>

\* a mutation of ClonedPreview: `polygons.push(addPolyPreview)`, the
\* preview's own arrays
PreviewItself(h, preview) ==
    [heap |-> h \o preview, outer |-> "argument",
     pts |-> [i \in 1..Len(preview) |-> Len(h) + i]]

\* the preview's arrays, allocated on h, and the clone made of them
ClonedPreview(h, preview) ==
    clonePolygon(h \o preview, [i \in 1..Len(preview) |-> Len(h) + i])

\* `polygons.push(clonePolygon(addPolyPreview)); polygons = polygons`
PushClone(cl) ==
    /\ heap' = cl.heap
    /\ editor' = MouseUpdate([Handling("click") EXCEPT !.polygons = Append(@, cl.pts)], cl.heap)

svgMouseClick(index) ==
    /\ CanHandle
    /\ IF editor.activeTool = "select"
       THEN /\ index >= 0
            /\ editor' = [Handling("click") EXCEPT !.selectedIndex = index]
            /\ UNCHANGED heap
       ELSE /\ editor.addPolyPreview # None
            /\ PushClone(ClonedPreview(heap, editor.addPolyPreview[1]))
    /\ UNCHANGED <<poly, target, callee, build, result, atReturn, written>>

\* `pAbs[0] = pRel[0] + mouseX; pAbs[1] = pRel[1] + mouseY`
DraggedPoint(pRel, mouse) == <<FAdd(pRel[1], mouse[1]), FAdd(pRel[2], mouse[2])>>

\* one iteration of the loop of svgMouseMove
DragStep(pl, rel, mouse, h, i) ==
    [h EXCEPT ![pl[i + 1]] = DraggedPoint(rel[i + 1], mouse)]

Min(a, b) == IF a < b THEN a ELSE b

\* the loop of svgMouseMove over the polygon pl
DragPolygon(h, pl, rel, mouse) ==
    LET Body(hh, i) == DragStep(pl, rel, mouse, hh, i)
    IN  Iterate(Body, h, 0, Min(Len(rel), Len(pl)) - 1)

\* the conditions under which svgMouseMove moves a polygon
Dragging(e) == e.activeTool = "move" /\ ValidIndex(e, e.draggingPolyIndex)

DraggedHeap(e, h, mouse) ==
    IF Dragging(e)
    THEN DragPolygon(h, e.polygons[e.draggingPolyIndex + 1],
                     e.draggingPolyCoordsRelativeToMouse, mouse)
    ELSE h

\* the history of the moves of a drag
MovesAfter(e) ==
    IF ~Dragging(e) THEN e.dragMoves
    ELSE IF e.dragMoves = "none" THEN "one" ELSE "several"

svgMouseMove(mouse) ==
    /\ CanHandle
    /\ heap' = DraggedHeap(editor, heap, mouse)
    /\ editor' = MouseUpdate([Handling("mousemove") EXCEPT !.mouseCoordsInSVG = Some(mouse),
                                            !.dragMoves = MovesAfter(editor)],
                             heap')
    /\ UNCHANGED <<poly, target, callee, build, result, atReturn, written>>

svgMouseLeave ==
    /\ CanHandle
    /\ editor' = MouseUpdate([Handling("mouseleave") EXCEPT !.draggingPolyIndex = -1,
                                            !.closestPoints = << >>,
                                            !.addPolyPreview = None,
                                            !.mouseCoordsInSVG = None],
                             heap)
    /\ UNCHANGED <<heap, poly, target, callee, build, result, atReturn, written>>

EditorNext ==
    \/ \E tool \in Tools : SelectTool(tool)
    \/ \E index \in TargetIndexes, mouse \in MousePositions : svgMouseDown(index, mouse)
    \/ svgMouseUp
    \/ \E index \in TargetIndexes : svgMouseClick(index)
    \/ \E mouse \in MousePositions : svgMouseMove(mouse)
    \/ svgMouseLeave

EditorSpec == EditorInit /\ [][EditorNext]_vars

----------------------------------------------------------------------------
(* Exact plane geometry, the yardstick of the properties below.  Sums and  *)
(* products of finite Numbers are taken without rounding.                  *)

XAdd(a, b) == LET x == AddExact(a, b) IN MkNum(x[1], x[2], x[3])
XSub(a, b) == XAdd(a, FNeg(b))
XMul(a, b) == MkNum((a.s + b.s) % 2, BnMul(a.m, b.m), a.e + b.e)
XSign(a) == IF BnIsZero(a.m) THEN 0 ELSE IF a.s = 0 THEN 1 ELSE -1
XLe(a, b) == XSign(XSub(a, b)) <= 0

IsFinitePoint(p) == p[1].k = "num" /\ p[2].k = "num"

\* (a - o) x (b - o) and (a - o) . (b - o)
XCross(o, a, b) ==
    XSub(XMul(XSub(a[1], o[1]), XSub(b[2], o[2])),
         XMul(XSub(a[2], o[2]), XSub(b[1], o[1])))
XDot(o, a, b) ==
    XAdd(XMul(XSub(a[1], o[1]), XSub(b[1], o[1])),
         XMul(XSub(a[2], o[2]), XSub(b[2], o[2])))
XSqDist(p, q) == XDot(p, q, q)

\* p lies on the closed segment from a to b
OnSegment(p, a, b) == XSign(XCross(a, b, p)) = 0 /\ XSign(XDot(p, a, b)) <= 0

\* the vertex after vertex i (1-based, cyclic)
Succ(pl, i) == IF i = Len(pl) THEN 1 ELSE i + 1

OnBoundary(p, pl) == \E i \in 1..Len(pl) : OnSegment(p, pl[i], pl[Succ(pl, i)])

\* the contribution of the edge from a to b to the winding number around p
Winding(p, a, b) ==
    IF XLe(a[2], p[2])
    THEN (IF ~XLe(b[2], p[2]) /\ XSign(XCross(a, b, p)) > 0 THEN 1 ELSE 0)
    ELSE (IF XLe(b[2], p[2]) /\ XSign(XCross(a, b, p)) < 0 THEN -1 ELSE 0)

RECURSIVE WindingNumber(_, _, _)
WindingNumber(p, pl, i) ==
    IF i > Len(pl) THEN 0
    ELSE Winding(p, pl[i], pl[Succ(pl, i)]) + WindingNumber(p, pl, i + 1)

StrictlyInside(p, pl) == ~OnBoundary(p, pl) /\ WindingNumber(p, pl, 1) # 0
Outside(p, pl) == ~OnBoundary(p, pl) /\ WindingNumber(p, pl, 1) = 0

\* the closed segments a-b and c-d have a point in common
SegmentsMeet(a, b, c, d) ==
    LET d1 == XSign(XCross(a, b, c))
        d2 == XSign(XCross(a, b, d))
        d3 == XSign(XCross(c, d, a))
        d4 == XSign(XCross(c, d, b))
    IN  \/ (d1 * d2 < 0 /\ d3 * d4 < 0)
        \/ OnSegment(c, a, b) \/ OnSegment(d, a, b)
        \/ OnSegment(a, c, d) \/ OnSegment(b, c, d)

\* a simple polygon: at least 3 vertices, no zero-length edge, consecutive
\* edges share only their common vertex, other edges share no point
IsSimplePolygon(pl) ==
    /\ Len(pl) >= 3
    /\ \A i \in 1..Len(pl) : pl[i] # pl[Succ(pl, i)]
    /\ \A i \in 1..Len(pl) :
          /\ ~OnSegment(pl[Succ(pl, Succ(pl, i))], pl[i], pl[Succ(pl, i)])
          /\ ~OnSegment(pl[i], pl[Succ(pl, i)], pl[Succ(pl, Succ(pl, i))])
    /\ \A i, k \in 1..Len(pl) :
          (k # i /\ k # Succ(pl, i) /\ i # Succ(pl, k))
              => ~SegmentsMeet(pl[i], pl[Succ(pl, i)], pl[k], pl[Succ(pl, k)])

\* the squared distance from t to the closed segment from a to b (a # b),
\* as a fraction <<numerator, denominator>> with a positive denominator
SegmentSqDist(t, a, b) ==
    LET dot == XDot(a, t, b)
        len == XSqDist(a, b)
        crs == XCross(a, b, t)
    IN  IF XSign(dot) <= 0 THEN <<XSqDist(t, a), FromInt(1)>>
        ELSE IF XLe(len, dot) THEN <<XSqDist(t, b), FromInt(1)>>
        ELSE <<XMul(crs, crs), len>>

FracLe(f, g) == XLe(XMul(f[1], g[2]), XMul(g[1], f[2]))

\* sq <= |t - q|^2 for every point q of the closed segment from a to b
SqDistLeSegment(sq, t, a, b) == FracLe(<<sq, FromInt(1)>>, SegmentSqDist(t, a, b))

\* the squared distance from t to the boundary of pl is the one to edge i
IsNearestEdge(t, pl, i) ==
    \A k \in 1..Len(pl) :
        FracLe(SegmentSqDist(t, pl[i], pl[Succ(pl, i)]),
               SegmentSqDist(t, pl[k], pl[Succ(pl, k)]))

----------------------------------------------------------------------------
(* Properties.                                                             *)

\* the arguments and the returned point of a finished call
ReturnedClosest == callee = "closest" /\ written = {}
ResultPoint == heap[result.ref]
OutsideCall == ReturnedClosest /\ IsSimplePolygon(PolyArg) /\ Outside(TargetArg, PolyArg)

\* C1: for a simple polygon and a target outside it, the returned point is
\* a defined point whose distance to the target is at most the distance
\* from the target to every point of every edge segment.
C1_ResultIsNearestBoundaryPoint ==
    OutsideCall =>
        /\ IsFinitePoint(ResultPoint)
        /\ \A i \in 1..Len(poly) :
              SqDistLeSegment(XSqDist(ResultPoint, TargetArg), TargetArg,
                              PolyArg[i], PolyArg[Succ(PolyArg, i)])

\* C2: for a simple polygon and a target outside it, the returned point
\* lies exactly on an edge segment, isPointOnEdgeOfSimplePolygon holds for
\* it, and it is at most as far from the target as each vertex.
C2_ResultLiesOnAnEdge ==
    OutsideCall =>
        /\ IsFinitePoint(ResultPoint)
        /\ OnBoundary(ResultPoint, PolyArg)
        /\ isPointOnEdgeOfSimplePolygon(ResultPoint, PolyArg)
        /\ \A i \in 1..Len(poly) :
              XLe(XSqDist(ResultPoint, TargetArg), XSqDist(PolyArg[i], TargetArg))

\* C3: when isPointInsideSimplePolygon or isPointOnEdgeOfSimplePolygon holds
\* of the target, the returned point has exactly the target's x and y and
\* the projection loop has visited no edge.
C3_InsideOrOnEdgeReturnsTarget ==
    (ReturnedClosest
        /\ (isPointInsideSimplePolygon(TargetArg, PolyArg)
               \/ isPointOnEdgeOfSimplePolygon(TargetArg, PolyArg)))
        => (ResultPoint = TargetArg /\ result.edges = << >>)

\* a call whose target is on an edge but not classified inside has returned
\* the target's coordinates
C3_Witness ==
    /\ ReturnedClosest
    /\ ~isPointInsideSimplePolygon(TargetArg, PolyArg)
    /\ isPointOnEdgeOfSimplePolygon(TargetArg, PolyArg)
    /\ ResultPoint = TargetArg
    /\ result.edges = << >>

\* C4 as stated: for a simple polygon, isPointInsideSimplePolygon returns
\* true exactly for the points strictly inside, so false on the boundary.
C4_InsideIffStrictlyInside ==
    (callee = "inside" /\ IsSimplePolygon(PolyArg))
        => (result.val <=> StrictlyInside(TargetArg, PolyArg))

\* C4 amended: for a simple polygon and a point that is not on its
\* boundary, isPointInsideSimplePolygon returns true exactly when the point
\* is strictly inside.
C4_InsideIffStrictlyInsideOffBoundary ==
    (callee = "inside" /\ IsSimplePolygon(PolyArg) /\ ~OnBoundary(TargetArg, PolyArg))
        => (result.val <=> StrictlyInside(TargetArg, PolyArg))

\* an interior point of a simple polygon has been classified inside
C4_Witness ==
    /\ callee = "inside"
    /\ IsSimplePolygon(PolyArg)
    /\ StrictlyInside(TargetArg, PolyArg)
    /\ result.val

C6_ResultsAreDefined ==
    /\ (callee \in {"inside", "onEdge"} /\ Len(poly) >= 3)
          => (result.kind = "bool" /\ result.val \in BOOLEAN)
    /\ (ReturnedClosest /\ Len(poly) >= 3)
          => (ResultPoint[1].k # "undef" /\ ResultPoint[2].k # "undef")

\* the candidates of the projection loop, in iteration order
Candidates == result.edges
IsMinimal(i) ==
    /\ Candidates[i].dist.k = "num"
    /\ \A k \in 1..Len(Candidates) : ~FLt(Candidates[k].dist, Candidates[i].dist)
FirstMinimal == CHOOSE i \in 1..Len(Candidates) :
                    IsMinimal(i) /\ \A k \in 1..(i - 1) : ~IsMinimal(k)
SeveralMinimal == \E i, k \in 1..Len(Candidates) : i # k /\ IsMinimal(i) /\ IsMinimal(k)

\* C7: when several edges yield candidates at the same minimum distance
\* from an outside target, the returned point is the candidate of the first
\* of these edges in iteration order.
C7_FirstEdgeWinsTies ==
    (ReturnedClosest /\ ~result.copy /\ SeveralMinimal)
        => ResultPoint = <<Candidates[FirstMinimal].px, Candidates[FirstMinimal].py>>

\* the vertex before vertex i (1-based, cyclic)
Pred(pl, i) == IF i = 1 THEN Len(pl) ELSE i - 1

\* t lies in the corner region of vertex i: its projections onto both edges
\* at the vertex fall beyond the vertex, and no edge is nearer than it
InCornerRegion(t, pl, i) ==
    /\ XSign(XDot(pl[i], t, pl[Succ(pl, i)])) < 0
    /\ XSign(XDot(pl[i], t, pl[Pred(pl, i)])) < 0
    /\ \A k \in 1..Len(pl) :
          SqDistLeSegment(XSqDist(t, pl[i]), t, pl[k], pl[Succ(pl, k)])

NumPolygon(pl) == [i \in 1..Len(pl) |-> NumPoint(pl[i])]

\* C8: an outside target in the corner region of a vertex gets exactly that
\* vertex; the square with target [-3,-4] gets [0,0] at distance 5.
C8_CornerRegionReturnsVertex ==
    /\ (OutsideCall /\ \E i \in 1..Len(poly) : InCornerRegion(TargetArg, PolyArg, i))
          => \E i \in 1..Len(poly) :
                InCornerRegion(TargetArg, PolyArg, i) /\ ResultPoint = PolyArg[i]
    /\ (ReturnedClosest /\ PolyArg = NumPolygon(Square10)
            /\ TargetArg = NumPoint(<<-3, -4>>))
          => /\ ResultPoint = NumPoint(<<0, 0>>)
             /\ euclideanDistance(TargetArg[1], TargetArg[2],
                                  ResultPoint[1], ResultPoint[2]) = FromInt(5)

\* the perpendicular foot of t lies within the edge from vertex i to the
\* next vertex, and no edge is nearer to t than this edge
FootOnNearestEdge(t, pl, i) ==
    /\ IsNearestEdge(t, pl, i)
    /\ XSign(XDot(pl[i], t, pl[Succ(pl, i)])) >= 0
    /\ XLe(XDot(pl[i], t, pl[Succ(pl, i)]), XSqDist(pl[i], pl[Succ(pl, i)]))

\* the foot of t on that edge, by the projection formula of the module in
\* Number arithmetic: (x_i + cos_theta * c, y_i + cos_theta * d), where the
\* module's vertex i is the later and its vertex j the earlier vertex
Foot(t, pl, i) ==
    LET cand == EdgeCandidate(pl[Succ(pl, i)], pl[i], t)
    IN  <<cand.px, cand.py>>

\* C9: an outside target whose perpendicular foot on its nearest edge lies
\* within that edge gets that foot; the square with target [15,5] gets
\* [10,5] at distance 5.
C9_FootWithinEdgeIsReturned ==
    /\ (OutsideCall /\ \E i \in 1..Len(poly) : FootOnNearestEdge(TargetArg, PolyArg, i))
          => \E i \in 1..Len(poly) :
                /\ FootOnNearestEdge(TargetArg, PolyArg, i)
                /\ ResultPoint = Foot(TargetArg, PolyArg, i)
    /\ (ReturnedClosest /\ PolyArg = NumPolygon(Square10)
            /\ TargetArg = NumPoint(<<15, 5>>))
          => /\ ResultPoint = NumPoint(<<10, 5>>)
             /\ euclideanDistance(TargetArg[1], TargetArg[2],
                                  ResultPoint[1], ResultPoint[2]) = FromInt(5)

\* C10: the returned point is fresh storage: an array the caller has not
\* written to keeps the content it had when the call returned, whichever of
\* the returned point, the target and the vertices is written to.
C10_ReturnedPointIsFresh ==
    callee = "closest" =>
        /\ result.ref # target
        /\ \A i \in 1..Len(poly) : result.ref # poly[i]
        /\ <<"result", 0>> \notin written => heap[result.ref] = atReturn[result.ref]
        /\ <<"target", 0>> \notin written => heap[target] = atReturn[target]
        /\ \A i \in 1..Len(poly) :
              <<"vertex", i>> \notin written => heap[poly[i]] = atReturn[poly[i]]

\* the copy returned for an inside target has been written to and the
\* target still has its content
C10_Witness ==
    /\ callee = "closest"
    /\ result.copy
    /\ written = {<<"result", 0>>}
    /\ heap[result.ref] # atReturn[result.ref]
    /\ heap[target] = atReturn[target]

Reverse(pl) == [i \in 1..Len(pl) |-> pl[Len(pl) + 1 - i]]

\* the point the call would return for the reversed polygon
ReversedResult ==
    LET r == closestPointOnSimplePolygonToTarget(Reverse(PolyArg), TargetArg, build)
    IN  <<r.x, r.y>>

\* the distance of p from the target, as euclideanDistance computes it
DistanceToTarget(p) == euclideanDistance(p[1], p[2], TargetArg[1], TargetArg[2])

\* C12: on the polygon with its vertex order reversed the two predicates
\* return the same boolean, and closestPointOnSimplePolygonToTarget returns
\* a point at the same distance from the target.
C12_ReversalKeepsResults ==
    /\ callee = "inside"
          => result.val = isPointInsideSimplePolygon(TargetArg, Reverse(PolyArg))
    /\ callee = "onEdge"
          => result.val = isPointOnEdgeOfSimplePolygon(TargetArg, Reverse(PolyArg))
    /\ ReturnedClosest
          => DistanceToTarget(ResultPoint) = DistanceToTarget(ReversedResult)

\* an outside call for which the reversed polygon gives another point, at
\* the same distance
C12_Witness ==
    /\ ReturnedClosest
    /\ ~result.copy
    /\ IsFinitePoint(ResultPoint)
    /\ ResultPoint # ReversedResult
    /\ DistanceToTarget(ResultPoint) = DistanceToTarget(ReversedResult)

\* the point lies outside the axis-aligned bounding box of the vertices
OutsideBoundingBox(p, pl) ==
    \/ \A i \in 1..Len(pl) : ~XLe(pl[i][1], p[1])
    \/ \A i \in 1..Len(pl) : ~XLe(p[1], pl[i][1])
    \/ \A i \in 1..Len(pl) : ~XLe(pl[i][2], p[2])
    \/ \A i \in 1..Len(pl) : ~XLe(p[2], pl[i][2])

\* C13: for a point outside the axis-aligned bounding box of the polygon's
\* vertices isPointInsideSimplePolygon returns false.
C13_OutsideBoundingBoxIsNotInside ==
    (callee = "inside" /\ OutsideBoundingBox(TargetArg, PolyArg))
        => result.val = FALSE

\* a point beside the polygon, level with it, so that edges straddle its
\* horizontal line and their crossings are computed
C13_Witness ==
    /\ callee = "inside"
    /\ OutsideBoundingBox(TargetArg, PolyArg)
    /\ \E i \in 1..Len(poly) : ~XLe(TargetArg[2], PolyArg[i][2])
    /\ \E i \in 1..Len(poly) : ~XLe(PolyArg[i][2], TargetArg[2])
    /\ \A i \in 1..Len(poly) : ~XLe(PolyArg[i][1], TargetArg[1])
    /\ result.val = FALSE

\* the values min_x and min_y have before the first iteration
DefaultPoint == IF build = "dist" THEN <<Zero, Zero>> ELSE <<Undefined, Undefined>>

\* C14: for a polygon of 0, 1 or 2 vertices each of the three functions
\* returns a value (a boolean, or an array of two coordinates); for the
\* empty polygon the two predicates return false and the closest point is
\* the pair of the initial min_x and min_y, the projection loop having
\* gone through no edge.
C14_MalformedPolygonsReturn ==
    Len(poly) < 3 =>
        /\ callee \in {"inside", "onEdge"} =>
              /\ result.kind = "bool" /\ result.val \in BOOLEAN
              /\ Len(poly) = 0 => result.val = FALSE
        /\ ReturnedClosest =>
              /\ result.kind = "point" /\ Len(ResultPoint) = 2
              /\ Len(poly) = 0 =>
                    /\ ~result.copy
                    /\ result.edges = << >>
                    /\ ResultPoint = DefaultPoint

\* the empty polygon has been handed to the TypeScript build
C14_Witness ==
    /\ ReturnedClosest
    /\ Len(poly) = 0
    /\ build = "ts"
    /\ ResultPoint = <<Undefined, Undefined>>

\* the edges whose candidate is closer to the target than the initial
\* min_dist
WithinRange == {k \in 1..Len(Candidates) : FLt(Candidates[k].dist, FromInt(MIN_DIST_INIT))}

\* edge k is the first of the nearest edges within range
FirstNearestWithinRange(k) ==
    /\ k \in WithinRange
    /\ \A m \in WithinRange :
          IF m < k THEN FLt(Candidates[k].dist, Candidates[m].dist)
          ELSE ~FLt(Candidates[m].dist, Candidates[k].dist)

ZeroLengthEdge(pl, k) == pl[k] = pl[LoopJ(Len(pl), k - 1) + 1]

\* the polygon without the vertices that repeat the vertex before them
RECURSIVE WithoutDuplicates(_)
WithoutDuplicates(pl) ==
    IF Len(pl) <= 1 THEN pl
    ELSE LET front == WithoutDuplicates(SubSeq(pl, 1, Len(pl) - 1))
         IN  IF pl[Len(pl)] = pl[Len(pl) - 1] THEN front
             ELSE Append(front, pl[Len(pl)])

HasDuplicate(pl) == \E k \in 2..Len(pl) : pl[k] = pl[k - 1]

\* the point the call would return for the polygon without its duplicates
ResultWithoutDuplicates ==
    LET r == closestPointOnSimplePolygonToTarget(WithoutDuplicates(PolyArg), TargetArg, build)
    IN  <<r.x, r.y>>

\* C17: a zero-length edge has a projection parameter and a candidate
\* distance that are not numbers, and its candidate is never taken; for a
\* polygon with a repeated consecutive vertex the result is the result for
\* the polygon without the repetition, and no returned coordinate is NaN
\* when some edge is within range.
C17_ZeroLengthEdgeIsSkipped ==
    (ReturnedClosest /\ ~result.copy) =>
        /\ \A k \in 1..Len(Candidates) :
              ZeroLengthEdge(PolyArg, k) =>
                  /\ Candidates[k].cos_theta = NaN
                  /\ Candidates[k].dist = NaN
                  /\ k \notin WithinRange
        /\ HasDuplicate(PolyArg) => ResultPoint = ResultWithoutDuplicates
        /\ WithinRange # {} => (ResultPoint[1] # NaN /\ ResultPoint[2] # NaN)

\* an outside target of the square with a repeated vertex
C17_Witness ==
    /\ ReturnedClosest /\ ~result.copy
    /\ PolyArg = NumPolygon(DupVertex)
    /\ \E k \in 1..Len(Candidates) :
          ZeroLengthEdge(PolyArg, k) /\ Candidates[k].dist = NaN
    /\ WithinRange # {}
    /\ IsFinitePoint(ResultPoint)
    /\ ResultPoint = ResultWithoutDuplicates

\* the end points of edge k of the iteration order (k = i + 1), and its
\* candidate
EdgeI(k) == PolyArg[k]
EdgeJ(k) == PolyArg[LoopJ(Len(PolyArg), k - 1) + 1]
CandidatePoint(k) == <<Candidates[k].px, Candidates[k].py>>
ProperEdges == {k \in 1..Len(Candidates) : ~ZeroLengthEdge(PolyArg, k)}

\* the exact projection of the target on edge k falls before vertex i,
\* beyond vertex j, or within the edge
ProjectsBeforeI(k) == XSign(XDot(EdgeI(k), TargetArg, EdgeJ(k))) < 0
ProjectsBeyondJ(k) == XSign(XDot(EdgeJ(k), TargetArg, EdgeI(k))) < 0
ProjectsWithin(k) == ~ProjectsBeforeI(k) /\ ~ProjectsBeyondJ(k)

\* the candidate of edge k is the vertex the projection falls beyond
ClampsToVertex(k) ==
    /\ ProjectsBeforeI(k) => CandidatePoint(k) = EdgeI(k)
    /\ ProjectsBeyondJ(k) => CandidatePoint(k) = EdgeJ(k)

\* C18 as stated: the candidate of each edge of non-zero length is vertex i
\* or vertex j when the projection falls beyond it, lies on the closed
\* segment, and no point of the segment is closer to the target.
C18_CandidateIsNearestOfSegment ==
    (ReturnedClosest /\ ~result.copy) =>
        \A k \in ProperEdges :
            /\ ClampsToVertex(k)
            /\ OnSegment(CandidatePoint(k), EdgeI(k), EdgeJ(k))
            /\ SqDistLeSegment(XSqDist(CandidatePoint(k), TargetArg), TargetArg,
                               EdgeI(k), EdgeJ(k))

\* 2^-80, the square of the relative rounding bound 2^-40
RoundingBoundSq == [k |-> "num", s |-> 0, m |-> <<1>>, e |-> -80]

\* len_sq * (candidate - foot), for the exact foot i + (dot/len_sq)(j - i)
FootErrorScaled(k, c) ==
    XSub(XMul(XSqDist(EdgeI(k), EdgeJ(k)), XSub(CandidatePoint(k)[c], EdgeI(k)[c])),
         XMul(XDot(EdgeI(k), TargetArg, EdgeJ(k)), XSub(EdgeJ(k)[c], EdgeI(k)[c])))

\* |candidate - foot|^2 <= 2^-80 * (|target - i|^2 + |j - i|^2)
NearExactFoot(k) ==
    XLe(XAdd(XMul(FootErrorScaled(k, 1), FootErrorScaled(k, 1)),
             XMul(FootErrorScaled(k, 2), FootErrorScaled(k, 2))),
        XMul(XMul(RoundingBoundSq,
                  XAdd(XSqDist(TargetArg, EdgeI(k)), XSqDist(EdgeI(k), EdgeJ(k)))),
             XMul(XSqDist(EdgeI(k), EdgeJ(k)), XSqDist(EdgeI(k), EdgeJ(k)))))

\* C18, amended: the candidate of each edge of non-zero length is exactly
\* vertex i or vertex j when the projection falls beyond it; when the
\* projection falls within the edge the candidate is the nearest point of
\* the segment up to rounding, at most 2^-40 * sqrt(|target - i|^2 +
\* |j - i|^2) away from it.
C18_CandidateIsNearestUpToRounding ==
    (ReturnedClosest /\ ~result.copy) =>
        \A k \in ProperEdges :
            /\ ClampsToVertex(k)
            /\ ProjectsWithin(k) => NearExactFoot(k)

\* a projection within an edge that misses the segment by rounding
C18_Witness ==
    /\ ReturnedClosest /\ ~result.copy
    /\ \E k \in ProperEdges :
          /\ ProjectsWithin(k)
          /\ ~OnSegment(CandidatePoint(k), EdgeI(k), EdgeJ(k))
          /\ NearExactFoot(k)
    /\ \E k \in ProperEdges : ProjectsBeforeI(k) /\ CandidatePoint(k) = EdgeI(k)

\* edge k of the iteration order (k = i + 1) has end points of equal y
LevelEdge(pl, k) == pl[k][2] = pl[LoopJ(Len(pl), k - 1) + 1][2]

\* C19: isPointInsideSimplePolygon divides by no zero: every division it
\* evaluates has a divisor y_j - y_i other than 0, and an edge whose end
\* points have equal y leaves the inside flag as it is.
C19_InsideNeverDividesByZero ==
    callee = "inside" =>
        /\ \A n \in 1..Len(result.divisors) :
              IsNum(result.divisors[n]) /\ ~IsZero(result.divisors[n])
        /\ \A k \in 1..Len(poly), inside \in BOOLEAN :
              LevelEdge(PolyArg, k)
                  => InsideStep(TargetArg, PolyArg, inside, k - 1) = inside

\* a point level with a horizontal edge of a polygon, other edges of which
\* cross its line
C19_Witness ==
    /\ callee = "inside"
    /\ \E k \in 1..Len(poly) :
          /\ ~ZeroLengthEdge(PolyArg, k)
          /\ LevelEdge(PolyArg, k)
          /\ PolyArg[k][2] = TargetArg[2]
    /\ Len(result.divisors) > 0
    /\ result.val

\* C15: clonePolygon returns a new outer list of as many points as p, in
\* the same order and with the same coordinates, none of them an array of
\* p; a point array that the caller has not written to keeps its content,
\* whichever point of p or of the clone is written to.
C15_CloneSharesNothing ==
    callee = "clone" =>
        /\ result.outer = "fresh"
        /\ Len(result.pts) = Len(poly)
        /\ \A i \in 1..Len(poly) : atReturn[result.pts[i]] = atReturn[poly[i]]
        /\ \A i, k \in 1..Len(poly) : result.pts[i] # poly[k]
        /\ \A i, k \in 1..Len(poly) : i # k => result.pts[i] # result.pts[k]
        /\ \A i \in 1..Len(poly) :
              /\ <<"vertex", i>> \notin written => heap[poly[i]] = atReturn[poly[i]]
              /\ <<"clone", i>> \notin written
                    => heap[result.pts[i]] = atReturn[result.pts[i]]

\* a point of the polygon has been written to after the call and the point
\* of the clone still has the coordinates it was cloned with
C15_Witness ==
    /\ callee = "clone"
    /\ Len(poly) >= 3
    /\ \E i \in 1..Len(poly) :
          /\ written = {<<"vertex", i>>}
          /\ heap[poly[i]] # atReturn[poly[i]]
          /\ heap[result.pts[i]] = atReturn[poly[i]]

\* the state at the mousedown of the drag, the polygon being dragged and
\* the current mouse position
DragOrigin == editor.dragOrigin[1]
DraggedPolygon == editor.polygons[editor.draggingPolyIndex + 1]
Mouse == editor.mouseCoordsInSVG[1]
IsVertexOf(a, pl) == \E i \in 1..Len(pl) : pl[i] = a

\* the point p translated by m - m0: as the sum (p - m0) + m of doubles,
\* and without rounding
Translated(p, m0, m) ==
    <<FAdd(FSub(p[1], m0[1]), m[1]), FAdd(FSub(p[2], m0[2]), m[2])>>
TranslatedExactly(p, m0, m) ==
    <<XAdd(p[1], XSub(m[1], m0[1])), XAdd(p[2], XSub(m[2], m0[2]))>>

\* a whole number of pixels
IsWhole(x) == IsNum(x) /\ x.e >= 0
WholePoint(p) == IsWhole(p[1]) /\ IsWhole(p[2])

DragRecorded(e) == e.draggingPolyIndex # -1

\* a step in which draggingPolyIndex leaves -1: the move tool is active
\* before and after, the index is one of a polygon, and the polygons, the
\* mouse variable and the heap stay as they are (it is a mousedown)
DragStartsByMouseDown ==
    (~DragRecorded(editor) /\ DragRecorded(editor'))
        => /\ editor.activeTool = "move" /\ editor'.activeTool = "move"
           /\ ValidIndex(editor, editor'.draggingPolyIndex)
           /\ editor'.polygons = editor.polygons
           /\ editor'.mouseCoordsInSVG = editor.mouseCoordsInSVG
           /\ heap' = heap

\* a step that activates a tool other than move ends with no drag recorded
OtherToolEndsDrag ==
    (editor'.activeTool # editor.activeTool /\ editor'.activeTool # "move")
        => ~DragRecorded(editor')

\* C21: after every event draggingPolyIndex is -1 or an index of the
\* polygons list, and it is not -1 only while the move tool is active; it
\* leaves -1 only by a mousedown on a polygon with the move tool active,
\* and activating a tool other than move resets it to -1.
C21_DragIndexIsValidAndOfMoveTool ==
    /\ [](DragRecorded(editor)
            => (ValidIndex(editor, editor.draggingPolyIndex)
                   /\ editor.activeTool = "move"))
    /\ [][DragStartsByMouseDown /\ OtherToolEndsDrag]_vars

\* a tool other than move has just been activated during a drag
C21_Witness ==
    /\ editor.activeTool \notin {"move"}
    /\ ~DragRecorded(editor)
    /\ editor.dragOrigin # None
    /\ editor.dragMoves # "none"
    /\ Len(editor.polygons) = 2

\* every array of the heap keeps its content in the step
ArraysKept == Len(heap') >= Len(heap) /\ \A a \in 1..Len(heap) : heap'[a] = heap[a]

\* a step taken while no drag is recorded changes no coordinate, and it
\* records a drag only if it is a mousedown with the move tool active
NoDragNoChange ==
    ~DragRecorded(editor)
        => /\ ArraysKept
           /\ DragRecorded(editor')
                 => (editor'.lastEvent = "mousedown" /\ editor.activeTool = "move")

\* C22: a mouseup, a mouseleave and the activation of a tool other than
\* move end the drag; from then on no mousemove, nor any other event,
\* changes a coordinate of a polygon until a mousedown on a polygon with the
\* move tool active, and activating the move tool again records no drag.
C22_EndedDragStaysEnded ==
    /\ []((editor.lastEvent \in {"mouseup", "mouseleave"}
              \/ (editor.lastEvent = "keydown" /\ editor.activeTool # "move"))
            => ~DragRecorded(editor))
    /\ [][NoDragNoChange]_vars

\* a drag has moved a polygon and has ended; the mouse has
\* moved again since and the polygon is where the drag left it
C22_Witness ==
    /\ editor.lastEvent = "mousemove"
    /\ editor.activeTool = "move"
    /\ ~DragRecorded(editor)
    /\ editor.dragOrigin # None
    /\ editor.dragMoves = "one"
    /\ editor.mouseCoordsInSVG # None
    /\ \E k \in 1..Len(editor.polygons) :
          /\ heap[editor.polygons[k][1]] # DragOrigin.heap[editor.polygons[k][1]]
          /\ heap[editor.polygons[k][1]]
                # Translated(DragOrigin.heap[editor.polygons[k][1]], DragOrigin.mouse, Mouse)

\* the step handles a click
ClickStep == editor'.events = editor.events + 1 /\ editor'.lastEvent = "click"

\* the polygon at the end of the list after the step
Appended == editor'.polygons[Len(editor'.polygons)]

\* the arrays of the preview that a click hands to clonePolygon: they come
\* into being with the preview and lie on the heap in front of the clone
PreviewArrays == (Len(heap) + 1)..(Len(heap) + Len(editor.addPolyPreview[1]))

\* the step appends one polygon: a copy, in arrays of its own, of the
\* preview, which is the base polygon of the active shape tool translated
\* by the mouse coordinates; the polygons and arrays there were are kept
AppendsCopyOfPreview ==
    /\ editor.activeTool \in ShapeTools
    /\ editor.addPolyPreview # None
    /\ editor.mouseCoordsInSVG # None
    /\ editor'.polygons = Append(editor.polygons, Appended)
    /\ ArraysKept
    /\ Len(Appended) = Len(BASE_POLYGONS[editor.activeTool])
    /\ \A i \in 1..Len(Appended) :
          /\ heap'[Appended[i]] = editor.addPolyPreview[1][i]
          /\ heap'[Appended[i]]
                = Translate(NumPoint(BASE_POLYGONS[editor.activeTool][i]), Mouse)
          /\ Appended[i] \notin 1..Len(heap)
          /\ Appended[i] \notin PreviewArrays
          /\ \A k \in 1..Len(Appended) : k # i => Appended[k] # Appended[i]

\* what a step does to the polygons list
ClickAppendsPreview ==
    /\ (ClickStep /\ editor.activeTool \in ShapeTools) => AppendsCopyOfPreview
    /\ editor'.polygons # editor.polygons => (ClickStep /\ AppendsCopyOfPreview)
    /\ editor'.addPolyPreview # editor.addPolyPreview
          => (ArraysKept /\ editor'.polygons = editor.polygons)

\* C23: a click with a shape tool active and a preview present appends
\* exactly one polygon, vertex for vertex the preview (the base polygon of
\* the tool translated by the mouse coordinates) in arrays of its own; the
\* polygons already in the list keep index and coordinates, nothing else
\* changes the list, and a change of the preview changes no polygon.
C23_ClickAppendsCopyOfPreview == [][ClickAppendsPreview]_vars

\* the mouse has moved after a click: the preview has followed it and the
\* appended polygon is where it was put
C23_Witness ==
    /\ editor.lastEvent = "mousemove"
    /\ editor.activeTool = "hexagon"
    /\ Len(editor.polygons) = 2
    /\ \E mouse \in MousePositions :
          /\ mouse # Mouse
          /\ PolyValue(heap, editor.polygons[2]) = PreviewAt("hexagon", mouse)[1]
    /\ editor.addPolyPreview = PreviewAt("hexagon", Mouse)

\* the closest points are shown: the tool is active and the mouse is inside
ShowsClosestPoints ==
    editor.activeTool = "closest-points" /\ editor.mouseCoordsInSVG # None

\* entry k of closestPoints is the call on polygon k, as it is now, and the
\* mouse coordinates, as they are now
IsCurrentCall(k) ==
    /\ editor.closestPoints[k].poly = PolyValue(heap, editor.polygons[k])
    /\ editor.closestPoints[k].target = Mouse

\* C24: after every event, with the closest-points tool active and the
\* mouse inside the canvas closestPoints has one entry for each polygon, in
\* the order of the polygons, and the entry is the result of
\* closestPointOnSimplePolygonToTarget for that polygon and the current
\* mouse coordinates; in every other case closestPoints is empty.
C24_ClosestPointsAreCurrent ==
    IF ShowsClosestPoints
    THEN /\ Len(editor.closestPoints) = Len(editor.polygons)
         /\ \A k \in 1..Len(editor.polygons) : IsCurrentCall(k)
    ELSE editor.closestPoints = << >>

\* closest points of two polygons put at different places are shown, and
\* they are two different points
C24_Witness ==
    /\ ShowsClosestPoints
    /\ Len(editor.polygons) = 2
    /\ Len(editor.closestPoints) = 2
    /\ editor.closestPoints[1].poly # editor.closestPoints[2].poly
    /\ ClosestPointOf(editor.closestPoints[1]) # ClosestPointOf(editor.closestPoints[2])

\* the preview is shown: a shape tool is active and the mouse is inside
ShowsPreview ==
    /\ editor.activeTool \in {"triangle", "square", "hexagon"}
    /\ editor.mouseCoordsInSVG # None

\* vertex i of the preview is vertex i of the base polygon of the active
\* tool, moved by the mouse coordinates
IsBaseVertexAtMouse(i) ==
    /\ editor.addPolyPreview[1][i][1]
         = FAdd(FromInt(BASE_POLYGONS[editor.activeTool][i][1]), Mouse[1])
    /\ editor.addPolyPreview[1][i][2]
         = FAdd(FromInt(BASE_POLYGONS[editor.activeTool][i][2]), Mouse[2])

PreviewFollowsToolAndMouse ==
    IF ShowsPreview
    THEN /\ editor.addPolyPreview # None
         /\ Len(editor.addPolyPreview[1]) = Len(BASE_POLYGONS[editor.activeTool])
         /\ \A i \in 1..Len(editor.addPolyPreview[1]) : IsBaseVertexAtMouse(i)
    ELSE editor.addPolyPreview = None

\* a step that changes the tool is not a mouse move
ToolChangeKeepsMouse ==
    editor'.activeTool # editor.activeTool
        => /\ editor'.mouseCoordsInSVG = editor.mouseCoordsInSVG
           /\ editor'.lastEvent = "keydown"

\* C25: after every event the preview is defined exactly when the active
\* tool is triangle, square or hexagon and the mouse is inside the canvas,
\* and it is then the base polygon of the active tool translated by the
\* current mouse coordinates; this holds after a change of tool as well,
\* which is not a mouse move and leaves the mouse coordinates as they are.
C25_PreviewFollowsToolAndMouse ==
    /\ []PreviewFollowsToolAndMouse
    /\ [][ToolChangeKeepsMouse]_vars

\* the square tool has just been activated with the mouse inside the
\* canvas and the preview is a square; the tool before it was a shape tool
\* or not, so the preview has been replaced or has appeared
C25_Witness ==
    /\ editor.lastEvent = "keydown"
    /\ editor.activeTool = "square"
    /\ editor.mouseCoordsInSVG # None
    /\ editor.addPolyPreview # None
    /\ Len(editor.addPolyPreview[1]) = 4
    /\ editor.addPolyPreview[1][1] # NumPoint(BASE_POLYGONS["square"][1])

\* a polygon is selected
Selected(e) == e.selectedIndex # -1

SelectionIsValidAndOfSelectTool ==
    Selected(editor)
        => /\ editor.selectedIndex \in 0..(Len(editor.polygons) - 1)
           /\ editor.activeTool = "select"

\* a step that changes the tool leaves nothing selected, whichever tool it
\* activates, and a step that selects is a click with the select tool
SelectionEndsWithTool ==
    /\ editor'.activeTool # editor.activeTool => ~Selected(editor')
    /\ (editor'.selectedIndex # editor.selectedIndex /\ Selected(editor'))
          => /\ editor'.lastEvent = "click"
             /\ editor.activeTool = "select"
             /\ editor'.activeTool = "select"

\* C26: after every event selectedIndex is -1 or an index of the polygons
\* list, and it is not -1 only while the select tool is active: the
\* activation of another tool clears the selection and the activation of
\* the select tool does not bring it back.
C26_SelectionIsValidAndOfSelectTool ==
    /\ []SelectionIsValidAndOfSelectTool
    /\ [][SelectionEndsWithTool]_vars

\* the second of two polygons is selected
C26_Witness ==
    /\ editor.activeTool = "select"
    /\ Len(editor.polygons) = 2
    /\ editor.selectedIndex = 1
    /\ editor.lastEvent = "click"

====
